---- MODULE Spec2Model ----
(***************************************************************************)
(* Model of the voice-prompt service (src/app.py): the per-IP rate limiter  *)
(* _too_many, the helpers _save_upload_to_temp, _transcribe_from_path,      *)
(* _refine and _chat_once, and the two request handlers process_voice and   *)
(* process_voice_stream with the streamed body generator.                   *)
(***************************************************************************)
EXTENDS Integers, Sequences, FiniteSets, TLC

VARIABLES
    now,        \* time.time(), read by _too_many
    ip_hits,    \* _ip_hits: client key -> deque of timestamps
    calls,      \* log of the _too_many calls made: [ip, t, rejected]
    api_key,    \* whether OPENAI_API_KEY is set in the environment
    client,     \* _client, the lazily created OpenAI client
    fs,         \* temp files on disk: path -> "partial" | "full"
    nreq,       \* number of requests received so far
    req,        \* the request being handled
    fn_in,      \* SpecRefine, SpecRelease: the argument of the function applied
    fn_env,     \* SpecRefine: what the backend did; SpecRelease: the files at the start
    fn_out,     \* SpecRefine, SpecRelease: what the function returned
    threads     \* SpecThreads: the position of each thread inside _too_many

vars == <<now, ip_hits, calls, api_key, client, fs, nreq, req, fn_in, fn_env, fn_out, threads>>

----------------------------------------------------------------------------
(* Bounds of the model *)

MaxTime == 121
MaxCalls == 8
MaxLen == 3

(* Program constants *)

RATE_WINDOW_SEC == 60
RATE_MAX_REQUESTS == 6

\* client keys, and the steps the clock takes: a step that keeps the earlier
\* calls inside the window and one that moves them out of it
Keys == {"10.0.0.1", "10.0.0.2"}
TickSteps == {RATE_WINDOW_SEC, RATE_WINDOW_SEC + 1}

----------------------------------------------------------------------------
(* Text: a Python str is a sequence of characters; None is a value apart. *)

Chars == {" ", "a", "\n"}
Whitespace == {" ", "\n"}
None == <<"None">>

TextsUpTo(n) == UNION {[1..k -> Chars] : k \in 0..n}

RECURSIVE lstrip(_)
lstrip(s) ==
    IF s # <<>> /\ Head(s) \in Whitespace THEN lstrip(Tail(s)) ELSE s

RECURSIVE rstrip(_)
rstrip(s) ==
    IF s # <<>> /\ s[Len(s)] \in Whitespace
    THEN rstrip(SubSeq(s, 1, Len(s) - 1))
    ELSE s

\* str.strip()
strip(s) == rstrip(lstrip(s))

\* (x or ""): None and the empty string are both falsy
or_empty(x) == IF x = None \/ x = <<>> THEN <<>> ELSE x

----------------------------------------------------------------------------
(* Rate limiter *)

\* variant: an if for the while, one expired entry dropped per call
popleft_once(dq, t) ==
    IF dq # <<>> /\ t - Head(dq) > RATE_WINDOW_SEC THEN Tail(dq) ELSE dq

\* while dq and now - dq[0] > RATE_WINDOW_SEC: dq.popleft()
RECURSIVE popleft_expired(_, _)
popleft_expired(dq, t) ==
    IF dq # <<>> /\ t - Head(dq) > RATE_WINDOW_SEC
    THEN popleft_expired(Tail(dq), t)
    ELSE dq

\* variant: rejects at the ceiling (>= for >)
too_many_strict(dq, t) ==
    LET d == popleft_expired(Append(dq, t), t)
    IN  [dq |-> d, result |-> Len(d) >= RATE_MAX_REQUESTS]

\* _too_many(ip) at time t on the deque dq of that ip: the deque afterwards
\* and the verdict
too_many(dq, t) ==
    LET d == popleft_expired(Append(dq, t), t)
    IN  [dq |-> d, result |-> Len(d) > RATE_MAX_REQUESTS]

\* no thread is inside _too_many
NoThreads == <<>>

\* the response carries no JSON result / no headers yet
NoJson == [raw |-> None, refined |-> None, response |-> None]
NoHeaders == [set |-> FALSE, refined |-> None, raw |-> None]

\* a request as it enters its handler
NewRequest(mode, ip, audio) ==
    [pc |-> "admit", mode |-> mode, ip |-> ip, audio |-> audio,
     status |-> 0, body |-> "none", error |-> "none", escaped |-> FALSE,
     path |-> 0, file |-> 0, raw_text |-> None, refined_prompt |-> None,
     final |-> None, json |-> NoJson, headers |-> NoHeaders, stream_body |-> <<>>,
     pulled |-> 0, disconnected |-> FALSE, stage_raised |-> FALSE, stt_raised |-> FALSE,
     refine_failed |-> FALSE, chat_raised |-> FALSE, stream_raised |-> FALSE,
     prior_invalid |-> TRUE,
     n_stage |-> 0, n_stt |-> 0, n_refine |-> 0, n_chat |-> 0, n_release |-> 0]

\* no request has been received yet
IdleReq == [NewRequest("buffered", "none", FALSE) EXCEPT !.pc = "idle"]

InitAdmit ==
    /\ now = 0
    /\ ip_hits = [k \in Keys |-> <<>>]
    /\ calls = <<>>
    /\ api_key = TRUE
    /\ client = "None"
    /\ fs = <<>>
    /\ nreq = 0
    /\ req = IdleReq
    /\ fn_in = <<>>
    /\ fn_env = <<>>
    /\ fn_out = <<>>
    /\ threads = NoThreads

\* the clock advances; only _too_many reads it, so time passing while a
\* handler runs shows at the next request
Tick ==
    /\ req.pc \in {"idle", "done"}
    /\ \E d \in TickSteps :
        /\ now + d <= MaxTime
        /\ now' = now + d
    /\ UNCHANGED <<threads, ip_hits, calls, api_key, client, fs, nreq, req, fn_in, fn_env, fn_out>>

\* one call _too_many(ip)
AdmitCall ==
    /\ Len(calls) < MaxCalls
    /\ \E ip \in Keys :
        LET r == too_many(ip_hits[ip], now)
        IN  /\ ip_hits' = [ip_hits EXCEPT ![ip] = r.dq]
            /\ calls' = Append(calls, [ip |-> ip, t |-> now, rejected |-> r.result])
    /\ UNCHANGED <<threads, now, api_key, client, fs, nreq, req, fn_in, fn_env, fn_out>>

NextAdmit == Tick \/ AdmitCall

SpecAdmit == InitAdmit /\ [][NextAdmit]_vars

----------------------------------------------------------------------------
(* _too_many run by concurrent request threads, statement by statement.    *)
(* Nothing in the module locks _ip_hits, so the statements of two calls    *)
(* interleave; each deque operation by itself is atomic.                   *)

Threads == {"t1", "t2"}

\* the key the concurrent requests come from
SharedKey == "10.0.0.1"

\* a thread outside _too_many
ThreadIdle == [pc |-> "idle", now |-> 0, popped_live |-> FALSE, raised |-> FALSE]

InitThreads ==
    /\ now = 0
    /\ ip_hits = [k \in Keys |-> <<>>]
    /\ calls = <<>>
    /\ api_key = TRUE
    /\ client = "None"
    /\ fs = <<>>
    /\ nreq = 0
    /\ req = IdleReq
    /\ fn_in = <<>>
    /\ fn_env = <<>>
    /\ fn_out = <<>>
    /\ threads = [th \in Threads |-> ThreadIdle]

\* the calls begun: those returned and those under way
CallsBegun == Len(calls) + Cardinality({th \in Threads : threads[th].pc # "idle"})

\* now = time.time(); dq = _ip_hits[ip]
ThreadEnter(th) ==
    /\ threads[th].pc = "idle"
    /\ CallsBegun < MaxCalls
    /\ threads' = [threads EXCEPT ![th].pc = "append", ![th].now = now]
    /\ UNCHANGED <<now, ip_hits, calls, api_key, client, fs, nreq, req, fn_in, fn_env, fn_out>>

\* dq.append(now)
ThreadAppend(th) ==
    /\ threads[th].pc = "append"
    /\ ip_hits' = [ip_hits EXCEPT ![SharedKey] = Append(@, threads[th].now)]
    /\ threads' = [threads EXCEPT ![th].pc = "test"]
    /\ UNCHANGED <<now, calls, api_key, client, fs, nreq, req, fn_in, fn_env, fn_out>>

\* while dq and ...: the first read of the shared deque, its truth value
ThreadTest(th) ==
    /\ threads[th].pc = "test"
    /\ threads' = [threads EXCEPT ![th].pc =
            IF ip_hits[SharedKey] # <<>> THEN "head" ELSE "count"]
    /\ UNCHANGED <<now, ip_hits, calls, api_key, client, fs, nreq, req, fn_in, fn_env, fn_out>>

\* ... now - dq[0] > RATE_WINDOW_SEC: the second read, of the head as it is by
\* now; IndexError on a deque emptied in between ends the call
ThreadHead(th) ==
    /\ threads[th].pc = "head"
    /\ LET dq == ip_hits[SharedKey]
       IN  IF dq = <<>>
           THEN /\ threads' = [threads EXCEPT ![th].pc = "idle", ![th].raised = TRUE]
                /\ calls' = Append(calls, [ip |-> SharedKey, t |-> threads[th].now,
                                           rejected |-> TRUE])
           ELSE /\ threads' = [threads EXCEPT ![th].pc =
                        IF threads[th].now - Head(dq) > RATE_WINDOW_SEC
                        THEN "pop" ELSE "count"]
                /\ UNCHANGED calls
    /\ UNCHANGED <<now, ip_hits, api_key, client, fs, nreq, req, fn_in, fn_env, fn_out>>

\* dq.popleft(): removes whatever is the head by now; IndexError on an empty
\* deque ends the call
ThreadPop(th) ==
    /\ threads[th].pc = "pop"
    /\ LET dq == ip_hits[SharedKey]
       IN  IF dq = <<>>
           THEN /\ threads' = [threads EXCEPT ![th].pc = "idle", ![th].raised = TRUE]
                /\ calls' = Append(calls, [ip |-> SharedKey, t |-> threads[th].now,
                                           rejected |-> TRUE])
                /\ UNCHANGED ip_hits
           ELSE /\ ip_hits' = [ip_hits EXCEPT ![SharedKey] = Tail(@)]
                /\ threads' = [threads EXCEPT ![th].pc = "test",
                        ![th].popped_live = @ \/ threads[th].now - Head(dq) <= RATE_WINDOW_SEC]
                /\ UNCHANGED calls
    /\ UNCHANGED <<now, api_key, client, fs, nreq, req, fn_in, fn_env, fn_out>>

\* return len(dq) > RATE_MAX_REQUESTS
ThreadCount(th) ==
    /\ threads[th].pc = "count"
    /\ calls' = Append(calls, [ip |-> SharedKey, t |-> threads[th].now,
                               rejected |-> Len(ip_hits[SharedKey]) > RATE_MAX_REQUESTS])
    /\ threads' = [threads EXCEPT ![th].pc = "idle"]
    /\ UNCHANGED <<now, ip_hits, api_key, client, fs, nreq, req, fn_in, fn_env, fn_out>>

\* the clock advances while threads are inside _too_many
ThreadTick ==
    /\ \E d \in TickSteps :
        /\ now + d <= MaxTime
        /\ now' = now + d
    /\ UNCHANGED <<ip_hits, calls, api_key, client, fs, nreq, req, fn_in, fn_env, fn_out, threads>>

NextThreads ==
    \/ ThreadTick
    \/ \E th \in Threads : ThreadEnter(th)
    \/ \E th \in Threads : ThreadAppend(th)
    \/ \E th \in Threads : ThreadTest(th)
    \/ \E th \in Threads : ThreadHead(th)
    \/ \E th \in Threads : ThreadPop(th)
    \/ \E th \in Threads : ThreadCount(th)

SpecThreads == InitThreads /\ [][NextThreads]_vars

----------------------------------------------------------------------------
(* Backends and helpers of the pipeline *)

MaxRequests == 7
MaxChunks == 2
MaxLeaked == 1

\* what a backend call returns as text: None, blank, padded or plain text, or
\* text of two lines
BackendTexts == {None, <<" ">>, <<" ", "a">>, <<"a", "a">>, <<"a", "\n", "a">>}

\* a backend call either raises or returns a content
BackendOutcomes ==
    {[raise |-> TRUE, content |-> None]}
        \cup {[raise |-> FALSE, content |-> x] : x \in BackendTexts}

\* get_client(): the client afterwards and whether RuntimeError was raised
get_client(c, key) ==
    IF c # "None" THEN [client |-> c, raised |-> FALSE]
    ELSE IF ~key THEN [client |-> c, raised |-> TRUE]
    ELSE [client |-> "OpenAI", raised |-> FALSE]

\* a file name no existing file has (NamedTemporaryFile)
fresh_path(files) == CHOOSE p \in 1..(Cardinality(DOMAIN files) + 1) : p \notin DOMAIN files

\* a file system with the file p in state st
with_file(files, p, st) ==
    [q \in DOMAIN files \cup {p} |-> IF q = p THEN st ELSE files[q]]

\* a file system without the file p
without_file(files, p) == [q \in DOMAIN files \ {p} |-> files[q]]

\* _save_upload_to_temp: the temp file is created (delete=False), then the
\* upload is written to it; io is "ok", "write_error" (audio_file.save raises)
\* or "create_error" (NamedTemporaryFile raises)
save_upload_to_temp(files, io) ==
    LET p == fresh_path(files)
    IN  CASE io = "ok" -> [fs |-> with_file(files, p, "full"), path |-> p, raised |-> FALSE]
          [] io = "write_error" -> [fs |-> with_file(files, p, "partial"), path |-> 0, raised |-> TRUE]
          [] OTHER -> [fs |-> files, path |-> 0, raised |-> TRUE]

\* _transcribe_from_path: one Whisper call on the staged file; out is what the
\* backend does
transcribe_from_path(c, key, files, path, out) ==
    LET g == get_client(c, key)
    IN  IF g.raised
        THEN [client |-> g.client, raised |-> TRUE, error |-> "OPENAI_API_KEY is not set",
              text |-> None, called |-> FALSE]
        ELSE IF path \notin DOMAIN files
        THEN [client |-> g.client, raised |-> TRUE, error |-> "FileNotFoundError",
              text |-> None, called |-> FALSE]
        ELSE IF out.raise
        THEN [client |-> g.client, raised |-> TRUE, error |-> "stt backend error",
              text |-> None, called |-> TRUE]
        ELSE [client |-> g.client, raised |-> FALSE, error |-> "none",
              text |-> strip(or_empty(out.content)), called |-> TRUE]

\* variant: a failed or blank refinement yields the empty text
refine_fail_closed(raw_text, c, key, out) ==
    LET raw == strip(or_empty(raw_text))
        g == get_client(c, key)
    IN  IF raw = <<>>
        THEN [client |-> c, raised |-> FALSE, error |-> "none", text |-> raw, called |-> FALSE]
        ELSE IF g.raised
        THEN [client |-> g.client, raised |-> TRUE, error |-> "OPENAI_API_KEY is not set",
              text |-> None, called |-> FALSE]
        ELSE [client |-> g.client, raised |-> FALSE, error |-> "none",
              text |-> IF out.raise THEN <<>> ELSE strip(or_empty(out.content)),
              called |-> TRUE]

\* _refine: no backend call for a blank text; otherwise the backend's trimmed
\* output, or the trimmed input when the call raises or returns nothing
refine(raw_text, c, key, out) ==
    LET raw == strip(or_empty(raw_text))
        g == get_client(c, key)
        refined == strip(or_empty(out.content))
    IN  IF raw = <<>>
        THEN [client |-> c, raised |-> FALSE, error |-> "none", text |-> raw, called |-> FALSE]
        ELSE IF g.raised
        THEN [client |-> g.client, raised |-> TRUE, error |-> "OPENAI_API_KEY is not set",
              text |-> None, called |-> FALSE]
        ELSE [client |-> g.client, raised |-> FALSE, error |-> "none",
              text |-> IF out.raise THEN raw ELSE IF refined # <<>> THEN refined ELSE raw,
              called |-> TRUE]

\* f"[LLM error] {e}"
llm_error_marker(e) == <<"[LLM error] ", e>>

\* f"\n[stream error] {e}", an element of the streamed body
stream_error_marker(e) == [kind |-> "[stream error]", seq |-> 0, detail |-> e]

\* delta.content of the n-th chunk pulled, an element of the streamed body
fragment(n) == [kind |-> "content", seq |-> n, detail |-> "none"]

\* variant: without the try/except around the backend call
chat_once_unsafe(c, key, out) ==
    LET g == get_client(c, key)
    IN  IF g.raised
        THEN [client |-> g.client, raised |-> TRUE, error |-> "OPENAI_API_KEY is not set",
              text |-> None, called |-> FALSE]
        ELSE IF out.raise
        THEN [client |-> g.client, raised |-> TRUE, error |-> "llm backend error",
              text |-> None, called |-> TRUE]
        ELSE [client |-> g.client, raised |-> FALSE, error |-> "none",
              text |-> strip(or_empty(out.content)), called |-> TRUE]

\* _chat_once: the backend's trimmed output, or the error marker when the call
\* raises
chat_once(c, key, out) ==
    LET g == get_client(c, key)
    IN  IF g.raised
        THEN [client |-> g.client, raised |-> TRUE, error |-> "OPENAI_API_KEY is not set",
              text |-> None, called |-> FALSE]
        ELSE IF out.raise
        THEN [client |-> g.client, raised |-> FALSE, error |-> "llm backend error",
              text |-> llm_error_marker("llm backend error"), called |-> TRUE]
        ELSE [client |-> g.client, raised |-> FALSE, error |-> "none",
              text |-> strip(or_empty(out.content)), called |-> TRUE]

\* os.remove(path): FileNotFoundError when there is no such file
os_remove(files, path) ==
    [fs |-> without_file(files, path), raised |-> path \notin DOMAIN files]

\* variant: without the try/except around os.remove
release_unguarded(files, path) == os_remove(files, path)

\* try: os.remove(path) / except Exception: pass
release(files, path) ==
    [fs |-> os_remove(files, path).fs, raised |-> FALSE]

----------------------------------------------------------------------------
(* The request handlers process_voice and process_voice_stream *)

Modes == {"buffered", "streamed"}

\* the client keys the handled requests come from
Clients == {"10.0.0.1"}

\* return jsonify({"error": msg}), code
json_error(r, code, msg) ==
    [r EXCEPT !.pc = "done", !.status = code, !.body = "json_error", !.error = msg]

\* variant: the except clause goes on with an empty transcript
caught_as_empty(r, msg) ==
    [r EXCEPT !.pc = "refine", !.raw_text = <<>>]

\* except Exception as e: return jsonify({"error": str(e)}), 500, the finally
\* clause still to run
caught(r, msg) ==
    [r EXCEPT !.pc = "finally", !.status = 500, !.body = "json_error", !.error = msg]

\* an exception leaves the handler: the framework answers 500 with its own
\* error page
uncaught(r, msg) ==
    [r EXCEPT !.pc = "done", !.status = 500, !.body = "framework_error",
              !.error = msg, !.escaped = TRUE]

\* an HTTP exception leaves the handler: the framework answers with the status
\* the exception carries
http_exception(r, code, msg) ==
    [r EXCEPT !.pc = "done", !.status = code, !.body = "framework_error",
              !.error = msg, !.escaped = TRUE]

\* resp.headers[name] = value: the header store of the response refuses a
\* value that holds a newline and raises ValueError
header_refused(value) == \E i \in 1..Len(value) : value[i] = "\n"

\* resp.headers["X-Refined-Prompt"], resp.headers["X-Transcript"]
stream_headers(raw_text, refined_prompt) ==
    [set |-> TRUE, refined |-> refined_prompt, raw |-> raw_text]

Init ==
    /\ now = 0
    /\ ip_hits = [k \in Keys |-> <<>>]
    /\ calls = <<>>
    /\ api_key \in BOOLEAN
    /\ client = "None"
    /\ fs = <<>>
    /\ nreq = 0
    /\ req = IdleReq
    /\ fn_in = <<>>
    /\ fn_env = <<>>
    /\ fn_out = <<>>
    /\ threads = NoThreads

\* variant: the 429 is built but not returned
AdmitNoReturn ==
    /\ req.pc \in {"idle", "done"}
    /\ nreq < MaxRequests
    /\ \E mode \in Modes : \E ip \in Clients : \E audio \in BOOLEAN :
        LET r == too_many(ip_hits[ip], now)
            fresh == [NewRequest(mode, ip, audio) EXCEPT
                         !.prior_invalid = req.prior_invalid /\ (req.pc = "idle" \/ ~req.audio)]
        IN  /\ ip_hits' = [ip_hits EXCEPT ![ip] = r.dq]
            /\ calls' = Append(calls, [ip |-> ip, t |-> now, rejected |-> r.result])
            /\ req' = IF r.result
                      THEN [fresh EXCEPT !.pc = "validate", !.status = 429,
                                         !.body = "json_error", !.error = "Too many requests"]
                      ELSE [fresh EXCEPT !.pc = "validate"]
    /\ nreq' = nreq + 1
    /\ UNCHANGED <<threads, now, api_key, client, fs, fn_in, fn_env, fn_out>>

\* variant: the audio field is looked at first, a request without it is
\* answered 400 and not counted
AdmitAfterValidate ==
    /\ req.pc \in {"idle", "done"}
    /\ nreq < MaxRequests
    /\ \E mode \in Modes : \E ip \in Clients : \E audio \in BOOLEAN :
        LET r == too_many(ip_hits[ip], now)
            fresh == [NewRequest(mode, ip, audio) EXCEPT
                         !.prior_invalid = req.prior_invalid /\ (req.pc = "idle" \/ ~req.audio)]
        IN  IF ~audio
            THEN /\ req' = json_error(fresh, 400, "No 'audio' file in form-data")
                 /\ UNCHANGED <<ip_hits, calls>>
            ELSE /\ ip_hits' = [ip_hits EXCEPT ![ip] = r.dq]
                 /\ calls' = Append(calls, [ip |-> ip, t |-> now, rejected |-> r.result])
                 /\ req' = IF r.result
                           THEN json_error(fresh, 429, "Too many requests")
                           ELSE [fresh EXCEPT !.pc = "validate"]
    /\ nreq' = nreq + 1
    /\ UNCHANGED <<threads, now, api_key, client, fs, fn_in, fn_env, fn_out>>

\* a request arrives; if _too_many(ip): return 429. prior_invalid notes whether
\* every earlier request lacked the audio field
Admit ==
    /\ req.pc \in {"idle", "done"}
    /\ nreq < MaxRequests
    /\ \E mode \in Modes : \E ip \in Clients : \E audio \in BOOLEAN :
        LET r == too_many(ip_hits[ip], now)
            fresh == [NewRequest(mode, ip, audio) EXCEPT
                         !.prior_invalid = req.prior_invalid /\ (req.pc = "idle" \/ ~req.audio)]
        IN  /\ ip_hits' = [ip_hits EXCEPT ![ip] = r.dq]
            /\ calls' = Append(calls, [ip |-> ip, t |-> now, rejected |-> r.result])
            /\ req' = IF r.result
                      THEN json_error(fresh, 429, "Too many requests")
                      ELSE [fresh EXCEPT !.pc = "validate"]
    /\ nreq' = nreq + 1
    /\ UNCHANGED <<threads, now, api_key, client, fs, fn_in, fn_env, fn_out>>

\* audio = request.files.get("audio"); if not audio: return 400. Reading
\* request.files of a body larger than MAX_CONTENT_LENGTH raises
\* RequestEntityTooLarge, before the try block
Validate ==
    /\ req.pc = "validate"
    /\ \E too_large \in BOOLEAN :
        req' = IF too_large
               THEN http_exception(req, 413, "RequestEntityTooLarge")
               ELSE IF ~req.audio
               THEN json_error(req, 400, "No 'audio' file in form-data")
               ELSE [req EXCEPT !.pc = "stage"]
    /\ UNCHANGED <<threads, now, ip_hits, calls, api_key, client, fs, nreq, fn_in, fn_env, fn_out>>

\* path = _save_upload_to_temp(audio, mime), before the try block
Stage ==
    /\ req.pc = "stage"
    /\ \E io \in {"ok", "write_error", "create_error"} :
        /\ io = "write_error" => Cardinality(DOMAIN fs) < MaxLeaked
        /\ LET r == save_upload_to_temp(fs, io)
               staged == [req EXCEPT !.n_stage = @ + 1,
                                     !.file = IF io = "create_error" THEN 0 ELSE fresh_path(fs)]
           IN  /\ fs' = r.fs
               /\ req' = IF r.raised
                         THEN uncaught([staged EXCEPT !.stage_raised = TRUE], io)
                         ELSE [staged EXCEPT !.pc = "transcribe", !.path = r.path]
    /\ UNCHANGED <<threads, now, ip_hits, calls, api_key, client, nreq, fn_in, fn_env, fn_out>>

\* variant: a failed transcription is tried again
TranscribeRetry ==
    /\ req.pc = "transcribe"
    /\ \E out \in BackendOutcomes :
        LET r == transcribe_from_path(client, api_key, fs, req.path, out)
            counted == [req EXCEPT !.n_stt = IF r.called THEN @ + 1 ELSE @,
                                   !.stt_raised = ~r.called \/ out.raise]
        IN  /\ client' = r.client
            /\ req' = IF r.raised
                      THEN counted
                      ELSE [counted EXCEPT !.pc = "refine", !.raw_text = r.text]
    /\ UNCHANGED <<threads, now, ip_hits, calls, api_key, fs, nreq, fn_in, fn_env, fn_out>>

\* raw_text = _transcribe_from_path(path)
Transcribe ==
    /\ req.pc = "transcribe"
    /\ \E out \in BackendOutcomes :
        LET r == transcribe_from_path(client, api_key, fs, req.path, out)
            \* no result came back: the backend raised or was never reached
            counted == [req EXCEPT !.n_stt = IF r.called THEN @ + 1 ELSE @,
                                   !.stt_raised = ~r.called \/ out.raise]
        IN  /\ client' = r.client
            /\ req' = IF r.raised
                      THEN caught(counted, r.error)
                      ELSE [counted EXCEPT !.pc = "refine", !.raw_text = r.text]
    /\ UNCHANGED <<threads, now, ip_hits, calls, api_key, fs, nreq, fn_in, fn_env, fn_out>>

\* refined_prompt = _refine(raw_text)
Refine ==
    /\ req.pc = "refine"
    /\ \E out \in BackendOutcomes :
        LET r == refine(req.raw_text, client, api_key, out)
            counted == [req EXCEPT !.n_refine = IF r.called THEN @ + 1 ELSE @,
                                   !.refine_failed = r.called /\
                                        (out.raise \/ strip(or_empty(out.content)) = <<>>)]
        IN  /\ client' = r.client
            /\ req' = IF r.raised
                      THEN caught(counted, r.error)
                      ELSE [counted EXCEPT !.refined_prompt = r.text,
                                           !.pc = IF req.mode = "buffered"
                                                  THEN "execute" ELSE "respond_stream"]
    /\ UNCHANGED <<threads, now, ip_hits, calls, api_key, fs, nreq, fn_in, fn_env, fn_out>>

\* final = _chat_once(model, refined_prompt); return jsonify({...})
Execute ==
    /\ req.pc = "execute"
    /\ \E out \in BackendOutcomes :
        LET r == chat_once(client, api_key, out)
            counted == [req EXCEPT !.n_chat = IF r.called THEN @ + 1 ELSE @,
                                   !.chat_raised = r.called /\ out.raise]
        IN  /\ client' = r.client
            /\ req' = IF r.raised
                      THEN caught(counted, r.error)
                      ELSE [counted EXCEPT !.final = r.text, !.pc = "finally",
                                           !.status = 200, !.body = "json_result",
                                           !.json = [raw |-> req.raw_text,
                                                     refined |-> req.refined_prompt,
                                                     response |-> r.text]]
    /\ UNCHANGED <<threads, now, ip_hits, calls, api_key, fs, nreq, fn_in, fn_env, fn_out>>

\* variant: the response is returned without the two headers
RespondStreamNoHeaders ==
    /\ req.pc = "respond_stream"
    /\ req' = IF header_refused(req.refined_prompt) \/ header_refused(req.raw_text)
              THEN caught(req, "Header values must not contain newline characters.")
              ELSE [req EXCEPT !.pc = "finally", !.status = 200, !.body = "stream"]
    /\ UNCHANGED <<threads, now, ip_hits, calls, api_key, client, fs, nreq, fn_in, fn_env, fn_out>>

\* resp = Response(stream_with_context(generate(refined_prompt))) with the two
\* headers set; return resp. A header value of more than one line is refused:
\* the assignment raises, the except clause answers 500 and no body is streamed
RespondStream ==
    /\ req.pc = "respond_stream"
    /\ req' = IF header_refused(req.refined_prompt) \/ header_refused(req.raw_text)
              THEN caught(req, "Header values must not contain newline characters.")
              ELSE [req EXCEPT !.pc = "finally", !.status = 200, !.body = "stream",
                               !.headers = stream_headers(req.raw_text, req.refined_prompt)]
    /\ UNCHANGED <<threads, now, ip_hits, calls, api_key, client, fs, nreq, fn_in, fn_env, fn_out>>

\* finally: try: os.remove(path) except Exception: pass
Release ==
    /\ req.pc = "finally"
    /\ LET r == release(fs, req.path)
           counted == [req EXCEPT !.n_release = @ + 1]
       IN  /\ fs' = r.fs
           /\ req' = IF r.raised
                     THEN uncaught(counted, "FileNotFoundError")
                     ELSE [counted EXCEPT !.pc = IF req.body = "stream"
                                                 THEN "gen_start" ELSE "done"]
    /\ UNCHANGED <<threads, now, ip_hits, calls, api_key, client, nreq, fn_in, fn_env, fn_out>>

\* generate(): client = get_client(); stream = create(stream=True), the session
\* opens, or raises and the marker is yielded
StreamOpen ==
    /\ req.pc = "gen_start"
    /\ \E opens \in BOOLEAN :
        LET g == get_client(client, api_key)
        IN  /\ client' = g.client
            /\ req' = IF g.raised
                      THEN [req EXCEPT !.pc = "done", !.escaped = TRUE]
                      ELSE IF opens
                      THEN [req EXCEPT !.pc = "gen_loop"]
                      ELSE [req EXCEPT !.pc = "gen_marker", !.stream_raised = TRUE,
                                !.stream_body = Append(@, stream_error_marker("llm backend error"))]
    /\ UNCHANGED <<threads, now, ip_hits, calls, api_key, fs, nreq, fn_in, fn_env, fn_out>>

\* variant: without the outer try/except, a failure of the session leaves the
\* generator
StreamChunkThrows ==
    /\ req.pc = "gen_loop"
    /\ \E ev \in {"content", "empty", "malformed", "raise", "end"} :
        /\ ev \in {"content", "empty", "malformed"} => req.pulled < MaxChunks
        /\ req' = CASE ev = "content" ->
                        [req EXCEPT !.pulled = @ + 1,
                                    !.stream_body = Append(@, fragment(req.pulled + 1))]
                    [] ev \in {"empty", "malformed"} ->
                        [req EXCEPT !.pulled = @ + 1]
                    [] ev = "raise" ->
                        [req EXCEPT !.pc = "done", !.stream_raised = TRUE, !.escaped = TRUE]
                    [] OTHER ->
                        [req EXCEPT !.pc = "done"]
    /\ UNCHANGED <<threads, now, ip_hits, calls, api_key, client, fs, nreq, fn_in, fn_env, fn_out>>

\* for chunk in stream: one pull from the upstream session. The chunk carries
\* content, carries none, is malformed (tolerated), or the session raises or
\* ends
StreamChunk ==
    /\ req.pc = "gen_loop"
    /\ \E ev \in {"content", "empty", "malformed", "raise", "end"} :
        /\ ev \in {"content", "empty", "malformed"} => req.pulled < MaxChunks
        /\ req' = CASE ev = "content" ->
                        [req EXCEPT !.pulled = @ + 1,
                                    !.stream_body = Append(@, fragment(req.pulled + 1))]
                    [] ev \in {"empty", "malformed"} ->
                        [req EXCEPT !.pulled = @ + 1]
                    [] ev = "raise" ->
                        [req EXCEPT !.pc = "gen_marker", !.stream_raised = TRUE,
                                    !.stream_body = Append(@, stream_error_marker("llm backend error"))]
                    [] OTHER ->
                        [req EXCEPT !.pc = "done"]
    /\ UNCHANGED <<threads, now, ip_hits, calls, api_key, client, fs, nreq, fn_in, fn_env, fn_out>>

\* the generator is resumed after the yield of the marker and returns
StreamEnd ==
    /\ req.pc = "gen_marker"
    /\ req' = [req EXCEPT !.pc = "done"]
    /\ UNCHANGED <<threads, now, ip_hits, calls, api_key, client, fs, nreq, fn_in, fn_env, fn_out>>

\* variant: the disconnect is noted and the generator goes on
DisconnectIgnored ==
    /\ req.pc \in {"gen_start", "gen_loop", "gen_marker"}
    /\ ~req.disconnected
    /\ req' = [req EXCEPT !.disconnected = TRUE]
    /\ UNCHANGED <<threads, now, ip_hits, calls, api_key, client, fs, nreq, fn_in, fn_env, fn_out>>

\* the client goes away while the body is delivered: the server closes the
\* generator, GeneratorExit passes both except Exception clauses
Disconnect ==
    /\ req.pc \in {"gen_start", "gen_loop", "gen_marker"}
    /\ req' = [req EXCEPT !.pc = "done", !.disconnected = TRUE]
    /\ UNCHANGED <<threads, now, ip_hits, calls, api_key, client, fs, nreq, fn_in, fn_env, fn_out>>

Next ==
    \/ Tick
    \/ Admit
    \/ Validate
    \/ Stage
    \/ Transcribe
    \/ Refine
    \/ Execute
    \/ RespondStream
    \/ Release
    \/ StreamOpen
    \/ StreamChunk
    \/ StreamEnd
    \/ Disconnect

Spec == Init /\ [][Next]_vars

\* a handler that has begun goes on to its next statement, every backend call
\* returns or raises, and the upstream session, which holds at most MaxChunks
\* chunks, delivers its next chunk, ends or fails; requests need not arrive
\* and clients need not disconnect
Fairness ==
    /\ WF_vars(Validate)
    /\ WF_vars(Stage)
    /\ WF_vars(Transcribe)
    /\ WF_vars(Refine)
    /\ WF_vars(Execute)
    /\ WF_vars(RespondStream)
    /\ WF_vars(Release)
    /\ WF_vars(StreamOpen)
    /\ WF_vars(StreamChunk)
    /\ WF_vars(StreamEnd)

\* the steps of the requests alone: the clock, which no step of a request
\* after admission reads, stands still
NextLive ==
    \/ Admit
    \/ Validate
    \/ Stage
    \/ Transcribe
    \/ Refine
    \/ Execute
    \/ RespondStream
    \/ Release
    \/ StreamOpen
    \/ StreamChunk
    \/ StreamEnd
    \/ Disconnect

SpecLive == Init /\ [][NextLive]_vars /\ Fairness

----------------------------------------------------------------------------
(* _refine as a function of its input and of what the backend does *)

MaxFiles == 3
MaxReleases == 2

Unset == <<"unset">>

\* _refine has not been called yet
NotCalled == [done |-> FALSE, text |-> None, called |-> FALSE, raised |-> FALSE]

\* what the handlers pass to _refine: the transcript returned by
\* _transcribe_from_path, a str without surrounding whitespace
RefineInputs == {strip(x) : x \in TextsUpTo(MaxLen)}

RefineOutcomes ==
    {[raise |-> TRUE, content |-> None]}
        \cup {[raise |-> FALSE, content |-> x] : x \in TextsUpTo(MaxLen) \cup {None}}

\* the state in which the handlers call _refine: _transcribe_from_path has
\* returned, so get_client() has built and cached the client; the environment
\* variable may have any value by now
InitRefine ==
    /\ now = 0
    /\ ip_hits = [k \in Keys |-> <<>>]
    /\ calls = <<>>
    /\ api_key \in BOOLEAN
    /\ client = "OpenAI"
    /\ fs = <<>>
    /\ nreq = 0
    /\ req = IdleReq
    /\ fn_in \in RefineInputs
    /\ fn_env = [raise |-> FALSE, content |-> None]
    /\ fn_out = NotCalled
    /\ threads = NoThreads

\* one call _refine(fn_in) against a backend that does fn_env
RefineCall ==
    /\ ~fn_out.done
    /\ \E out \in RefineOutcomes :
        LET r == refine(fn_in, client, api_key, out)
        IN  /\ fn_env' = out
            /\ fn_out' = [done |-> TRUE, text |-> r.text, called |-> r.called, raised |-> r.raised]
            /\ client' = r.client
    /\ UNCHANGED <<threads, now, ip_hits, calls, api_key, fs, nreq, req, fn_in>>

NextRefine == RefineCall

SpecRefine == InitRefine /\ [][NextRefine]_vars

----------------------------------------------------------------------------
(* The release step of the handlers, applied to any file system *)

FileSystems ==
    UNION {[D -> {"partial", "full"}] : D \in SUBSET (1..MaxFiles)}

InitRelease ==
    /\ now = 0
    /\ ip_hits = [k \in Keys |-> <<>>]
    /\ calls = <<>>
    /\ api_key = TRUE
    /\ client = "None"
    /\ fs \in FileSystems
    /\ nreq = 0
    /\ req = IdleReq
    /\ fn_in \in 1..MaxFiles
    /\ fn_env = fs
    /\ fn_out = [n |-> 0, raised |-> FALSE, after_first |-> Unset]
    /\ threads = NoThreads

\* the release step runs (once more) on the path fn_in
ReleaseCall ==
    /\ fn_out.n < MaxReleases
    /\ LET r == release(fs, fn_in)
       IN  /\ fs' = r.fs
           /\ fn_out' = [n |-> fn_out.n + 1,
                         raised |-> fn_out.raised \/ r.raised,
                         after_first |-> IF fn_out.n = 0 THEN r.fs ELSE fn_out.after_first]
    /\ UNCHANGED <<threads, now, ip_hits, calls, api_key, client, nreq, req, fn_in, fn_env>>

NextRelease == ReleaseCall

SpecRelease == InitRelease /\ [][NextRelease]_vars

----------------------------------------------------------------------------
(* C1 *)

\* the calls of key ip among the first n logged calls whose time lies in the
\* trailing window [T - RATE_WINDOW_SEC, T]
InWindow(ip, n, T) ==
    {j \in 1..n : calls[j].ip = ip /\ calls[j].t <= T /\ T - calls[j].t <= RATE_WINDOW_SEC}

\* the windows to look at: a trailing window that holds calls is contained in
\* the one ending at the latest call it holds
WindowEnds == {calls[j].t : j \in 1..Len(calls)} \cup {now}

\* C1: with non-decreasing timestamps, a call whose trailing 60-unit window
\* holds at most 6 calls of its key (itself included) is not rejected, and in
\* every trailing 60-unit window at most 6 calls of one key are admitted (so
\* more than 6 calls in one window means at least one rejection).
C1_WindowCap ==
    /\ \A i \in 1..Len(calls) :
        Cardinality(InWindow(calls[i].ip, i, calls[i].t)) <= RATE_MAX_REQUESTS
            => ~calls[i].rejected
    /\ \A ip \in Keys : \A T \in WindowEnds :
        Cardinality({j \in InWindow(ip, Len(calls), T) : ~calls[j].rejected})
            <= RATE_MAX_REQUESTS

\* a key made more than 6 calls inside one window: six were admitted, the
\* seventh rejected, and a later call outside that window was admitted again
C1_Witness ==
    \E i \in 1..Len(calls) : \E k \in 1..Len(calls) :
        /\ Cardinality(InWindow(calls[i].ip, i, calls[i].t)) > RATE_MAX_REQUESTS
        /\ calls[i].rejected
        /\ Cardinality({j \in InWindow(calls[i].ip, i, calls[i].t) : ~calls[j].rejected})
            = RATE_MAX_REQUESTS
        /\ k > i
        /\ calls[k].ip = calls[i].ip
        /\ calls[k].t - calls[i].t > RATE_WINDOW_SEC
        /\ ~calls[k].rejected

----------------------------------------------------------------------------
(* C2 *)

\* the request being handled is the one of the last logged _too_many call
LastCall == calls[Len(calls)]

\* C2: a request rejected by the rate limiter ends with 429 and nothing else
\* was done for it (no temp file, no backend call, no release), and the
\* request that is the 7th or later of its client in the trailing window is
\* rejected.
C2_RejectedDoesNothing ==
    /\ req.status = 429 =>
        /\ req.pc = "done"
        /\ req.body = "json_error"
        /\ req.file = 0 /\ req.path = 0
        /\ req.n_stage = 0 /\ req.n_stt = 0 /\ req.n_refine = 0
        /\ req.n_chat = 0 /\ req.n_release = 0
        /\ req.stream_body = <<>>
    /\ (req.pc # "idle"
            /\ Cardinality(InWindow(req.ip, Len(calls), LastCall.t)) > RATE_MAX_REQUESTS)
        => req.status = 429

\* the 7th request of a client, 60 time units after its first, was rejected on
\* the streaming endpoint
C2_Witness ==
    /\ req.status = 429
    /\ req.mode = "streamed"
    /\ Len(calls) = RATE_MAX_REQUESTS + 1
    /\ calls[1].t = 0
    /\ LastCall.t = RATE_WINDOW_SEC

----------------------------------------------------------------------------
(* C3 *)

\* C3 as stated: when the primary transcription raises, a fallback runs once
\* (a second transcription call), its result is the Transcript and the
\* pipeline goes on; no fallback runs when the primary succeeds.
C3_FallbackOnPrimaryFailure ==
    /\ req.stt_raised =>
        /\ req.raw_text # None
        /\ req.status # 500
    /\ ~req.stt_raised => req.n_stt <= 1

----------------------------------------------------------------------------
(* C4 *)

\* C4: when transcription fails fatally, the request answers 500 with an
\* error body from inside the handler, neither refinement nor execution runs,
\* and no Transcript (not even an empty one) is produced.
C4_TranscriptionFailureIsFatal ==
    req.stt_raised =>
        /\ req.pc \in {"finally", "done"}
        /\ req.status = 500
        /\ req.body = "json_error"
        /\ req.error # "none"
        /\ ~req.escaped
        /\ req.n_refine = 0 /\ req.n_chat = 0
        /\ req.raw_text = None /\ req.refined_prompt = None /\ req.final = None
        /\ req.json = NoJson /\ req.headers = NoHeaders /\ req.stream_body = <<>>

\* a streamed request whose transcription backend raised has finished
C4_Witness ==
    /\ req.stt_raised
    /\ req.mode = "streamed"
    /\ req.error = "stt backend error"
    /\ req.pc = "done"

----------------------------------------------------------------------------
(* C5 *)

RefineFailed(out) == out.raise \/ strip(or_empty(out.content)) = <<>>

\* C5: for every non-empty transcript t, refine(t) does not raise, calls the
\* backend, and is exactly t when the backend raises or returns blank output,
\* and the backend's trimmed output otherwise.
C5_FailOpenExact ==
    (fn_out.done /\ fn_in # <<>>) =>
        /\ ~fn_out.raised
        /\ fn_out.called
        /\ fn_out.text = IF RefineFailed(fn_env) THEN fn_in
                         ELSE strip(or_empty(fn_env.content))

\* the backend returned blank output for a transcript of two words
C5_Witness ==
    /\ fn_out.done
    /\ fn_in = <<"a", " ", "a">>
    /\ fn_env = [raise |-> FALSE, content |-> <<" ">>]
    /\ fn_out.text = fn_in

----------------------------------------------------------------------------
(* C6 *)

\* C6: in buffered mode, when the execution backend raises, the request still
\* answers 200 with the Transcript and Refined Prompt computed before and an
\* error marker as the response; it never answers 500.
C6_ExecutionFailsSoft ==
    (req.mode = "buffered" /\ req.chat_raised) =>
        /\ req.status = 200
        /\ req.body = "json_result"
        /\ ~req.escaped
        /\ req.raw_text # None /\ req.refined_prompt # None
        /\ req.json = [raw |-> req.raw_text, refined |-> req.refined_prompt,
                       response |-> llm_error_marker("llm backend error")]

\* the execution backend raised after a refinement that changed the text
C6_Witness ==
    /\ req.mode = "buffered"
    /\ req.chat_raised
    /\ req.pc = "done"
    /\ req.raw_text # req.refined_prompt

----------------------------------------------------------------------------
(* C7 *)

\* the handler of the request has returned (the body may still be streaming)
HandlerFinished == req.pc \in {"done", "gen_start", "gen_loop", "gen_marker"}

\* C7: a request that created a temp file runs the release step exactly once
\* on every exit path, and once its handler has finished its file is gone.
C7_ReleasedOnEveryExit ==
    /\ req.n_release <= 1
    /\ (HandlerFinished /\ req.file # 0) =>
        /\ req.n_release = 1
        /\ req.file \notin DOMAIN fs

----------------------------------------------------------------------------
(* C8 *)

StreamPhase == req.pc \in {"gen_start", "gen_loop", "gen_marker"}

\* C8: in the streamed flow the two headers hold the Transcript and Refined
\* Prompt before the first body fragment, and no step of the body (fragment,
\* stream failure, disconnect) changes them.
C8_HeadersFixed ==
    /\ [](((StreamPhase \/ req.stream_body # <<>>) =>
            /\ req.headers.set
            /\ req.raw_text # None /\ req.refined_prompt # None
            /\ req.headers.raw = req.raw_text
            /\ req.headers.refined = req.refined_prompt))
    /\ [][StreamPhase =>
            /\ req'.headers = req.headers
            /\ req'.raw_text = req.raw_text
            /\ req'.refined_prompt = req.refined_prompt]_vars

\* a fragment was sent, then the stream failed; the two headers differ
C8_Witness ==
    /\ req.pc = "done"
    /\ Len(req.stream_body) = 2
    /\ req.stream_body[2] = stream_error_marker("llm backend error")
    /\ req.stream_body[1] = fragment(1)
    /\ req.headers.set
    /\ req.headers.refined # req.headers.raw

----------------------------------------------------------------------------
(* C9 *)

\* C9: a staging failure is answered by the handler itself: 500 with a JSON
\* error body, no exception leaving the handler.
C9_StagingFailureReported ==
    req.stage_raised =>
        /\ req.status = 500
        /\ req.body = "json_error"
        /\ ~req.escaped

----------------------------------------------------------------------------
(* C10 *)

\* C10: the release step never raises, and running it again (also on a file
\* that is gone or was only partly written) leaves the file system as the
\* first release left it.
C10_ReleaseIdempotent ==
    fn_out.n >= 1 =>
        /\ ~fn_out.raised
        /\ fs = fn_out.after_first
        /\ fn_in \notin DOMAIN fs
        /\ \A p \in DOMAIN fn_env \ {fn_in} : p \in DOMAIN fs /\ fs[p] = fn_env[p]

\* a partly written file was released twice, next to a file that stays
C10_Witness ==
    /\ fn_out.n = 2
    /\ fn_in \in DOMAIN fn_env
    /\ fn_env[fn_in] = "partial"
    /\ DOMAIN fs # {}

----------------------------------------------------------------------------
(* C11 *)

\* the calls of key ip that were admitted
Admitted(ip) == {j \in 1..Len(calls) : calls[j].ip = ip /\ ~calls[j].rejected}

\* C11: a rejected call records nothing, so the window of a key holds
\* timestamps of admitted calls only: it is never longer than the number of
\* calls of that key admitted so far.
C11_RejectedNotRecorded ==
    \A ip \in Keys : Len(ip_hits[ip]) <= Cardinality(Admitted(ip))

----------------------------------------------------------------------------
(* C12 *)

\* C12: whatever the interleaving of concurrent calls of one key, at most 6
\* calls are admitted in any trailing 60-unit window, pruning never removes a
\* timestamp that is still inside the window of the pruning call.
C12_AtomicAdmission ==
    /\ \A T \in WindowEnds :
        Cardinality({j \in InWindow(SharedKey, Len(calls), T) : ~calls[j].rejected})
            <= RATE_MAX_REQUESTS
    /\ \A th \in Threads : ~threads[th].popped_live

----------------------------------------------------------------------------
(* C13 *)

\* C13: the window of a key never holds more than 6 + 1 timestamps.
C13_WindowLength ==
    \A ip \in Keys : Len(ip_hits[ip]) <= RATE_MAX_REQUESTS + 1

----------------------------------------------------------------------------
(* C14 *)

\* the time of the latest call of key ip
LastCallTime(ip) ==
    LET js == {j \in 1..Len(calls) : calls[j].ip = ip}
    IN  calls[CHOOSE j \in js : \A k \in js : k <= j].t

\* C14: after a call of a key made at time t, the window of that key is
\* ordered non-decreasingly and holds no timestamp older than t - 60; the call
\* itself is its last entry.
C14_SortedAndPruned ==
    \A ip \in Keys :
        LET dq == ip_hits[ip]
        IN  /\ \A i \in 1..(Len(dq) - 1) : dq[i] <= dq[i + 1]
            /\ (\E j \in 1..Len(calls) : calls[j].ip = ip) =>
                /\ dq # <<>>
                /\ dq[Len(dq)] = LastCallTime(ip)
                /\ \A i \in 1..Len(dq) : LastCallTime(ip) - dq[i] <= RATE_WINDOW_SEC

\* a call found expired timestamps in the window and dropped them all, while
\* keeping those exactly 60 old
C14_Witness ==
    \E ip \in Keys :
        /\ Cardinality({j \in 1..Len(calls) : calls[j].ip = ip}) >= 4
        /\ ip_hits[ip] = <<RATE_WINDOW_SEC + 1, 2 * RATE_WINDOW_SEC + 1>>

----------------------------------------------------------------------------
(* C15 *)

\* the transcription call of the request returned a transcript
Transcribed == req.n_stt = 1 /\ ~req.stt_raised

\* C15: once transcription has succeeded the request never fails, whatever
\* the refinement and execution backends do: no error response, no exception
\* leaving the handler, and the response, once built, is a 200 carrying the
\* result (buffered) or the stream (streamed).
C15_NoFailureAfterTranscription ==
    Transcribed =>
        /\ req.status \in {0, 200}
        /\ ~req.escaped
        /\ req.body \in {"none", "json_result", "stream"}
        /\ req.pc \in {"refine", "execute", "respond_stream", "finally",
                       "gen_start", "gen_loop", "gen_marker", "done"}
        /\ req.pc \in {"finally", "gen_start", "gen_loop", "gen_marker", "done"} =>
            /\ req.status = 200
            /\ req.body = IF req.mode = "buffered" THEN "json_result" ELSE "stream"

----------------------------------------------------------------------------
(* C16 *)

\* the positions of the streamed body that hold an error marker
Markers == {i \in 1..Len(req.stream_body) : req.stream_body[i].kind = "[stream error]"}

\* the fragments of the streamed body are in the order they were pulled
FragmentsInOrder ==
    \A i, j \in 1..Len(req.stream_body) :
        (i < j /\ req.stream_body[i].kind = "content" /\ req.stream_body[j].kind = "content")
            => req.stream_body[i].seq < req.stream_body[j].seq

\* C16: when the streaming session fails while it is opened or pulled from,
\* the body ends with exactly one error marker as its last element, after the
\* fragments sent so far in their order; the failing step only appends the
\* marker, nothing follows it and no exception leaves the generator.
C16_MarkerIsLast ==
    /\ [](/\ Markers \subseteq {Len(req.stream_body)}
          /\ FragmentsInOrder
          /\ (Markers # {}) = req.stream_raised
          /\ req.stream_raised =>
              /\ req.pc \in {"gen_marker", "done"}
              /\ ~req.escaped
              /\ req.status = 200
              /\ req.stream_body[Len(req.stream_body)] = stream_error_marker("llm backend error"))
    /\ [][(~req.stream_raised /\ req'.stream_raised) =>
            /\ StreamPhase
            /\ req'.stream_body = Append(req.stream_body, stream_error_marker("llm backend error"))
            /\ req'.pulled = req.pulled]_vars
    /\ [][req.stream_raised =>
            \/ req'.stream_body = req.stream_body /\ req'.stream_raised
            \/ nreq' = nreq + 1]_vars

\* the session failed after two fragments had been sent
C16_Witness ==
    /\ req.stream_raised
    /\ req.stream_body = <<fragment(1), fragment(2), stream_error_marker("llm backend error")>>

----------------------------------------------------------------------------
(* C17 *)

\* C17: when the client disconnects during the streamed body (between two
\* fragments, before the first, or at the yield of the marker) the generator
\* ends there: the disconnect and every later step of that request pull no
\* fragment and add neither fragment nor marker to the body, and the staged
\* upload of the request has been released, once.
C17_DisconnectStops ==
    /\ [](req.disconnected =>
            /\ req.pc = "done"
            /\ ~req.escaped
            /\ req.n_release = 1
            /\ req.file # 0 /\ req.file \notin DOMAIN fs)
    /\ [][(req'.disconnected /\ nreq' = nreq) =>
            /\ req'.stream_body = req.stream_body
            /\ req'.pulled = req.pulled
            /\ req'.n_release = req.n_release
            /\ ~req.disconnected => StreamPhase]_vars

\* the client left after the first fragment
C17_Witness ==
    /\ req.disconnected
    /\ req.stream_body = <<fragment(1)>>
    /\ req.pulled = 1

----------------------------------------------------------------------------
(* C19 *)

\* C19: admission comes before validation on both endpoints. Every request,
\* with the audio field or without, is one logged call and keeps its timestamp
\* in the window of its client while it is inside the trailing window; a
\* request that finds 6 earlier requests of its client in its trailing window
\* gets 429 whether it carries audio or not; a request gets 400 only if it was
\* admitted and lacks audio (an admitted request without audio gets 400, or 413
\* when its body is too large); validation leaves the window as it is.
C19_AdmissionBeforeValidation ==
    /\ [](req.pc # "idle" =>
            /\ Len(calls) = nreq
            /\ LastCall.ip = req.ip
            /\ LastCall.rejected = (req.status = 429)
            /\ Len(ip_hits[req.ip]) = Cardinality(InWindow(req.ip, Len(calls), LastCall.t))
            /\ Cardinality(InWindow(req.ip, Len(calls) - 1, LastCall.t)) >= RATE_MAX_REQUESTS
                => req.status = 429
            /\ req.status = 400 => ~LastCall.rejected /\ ~req.audio
            /\ (~LastCall.rejected /\ ~req.audio /\ req.pc = "done")
                => req.status \in {400, 413})
    /\ [][req.pc = "validate" => ip_hits' = ip_hits /\ calls' = calls]_vars

\* six requests without audio within 60 time units, each answered 400, and the
\* seventh, which carries audio, is answered 429
C19_Witness ==
    /\ nreq = RATE_MAX_REQUESTS + 1
    /\ req.prior_invalid
    /\ req.audio
    /\ req.status = 429
    /\ calls[1].t = 0
    /\ now = RATE_WINDOW_SEC
    /\ \A j \in 1..RATE_MAX_REQUESTS : ~calls[j].rejected

----------------------------------------------------------------------------
(* C18 *)

\* the statements of a handler and of its generator in program order
StageOrder ==
    <<"validate", "stage", "transcribe", "refine", "execute", "respond_stream",
      "finally", "gen_start", "gen_loop", "gen_marker", "done">>

Rank(pc) == CHOOSE i \in 1..Len(StageOrder) : StageOrder[i] = pc

\* the streamed body of the request in hand has ended: by the end of the
\* upstream, by the marker, or by the client's disconnect
BodyEnded ==
    req.body = "stream" =>
        \/ req.disconnected
        \/ req.stream_raised /\ Markers = {Len(req.stream_body)}
        \/ ~req.stream_raised /\ Markers = {}

\* the request in hand has one of the final outcomes the claim lists
TerminalAsStated ==
    /\ req.pc = "done"
    /\ req.status \in {200, 400, 429, 500}
    /\ BodyEnded

\* the request in hand has its final outcome, 413 for a body that is too large
\* included
Terminal ==
    /\ req.pc = "done"
    /\ req.status \in {200, 400, 413, 429, 500}
    /\ BodyEnded

\* C18 as stated: every request reaches a terminal outcome that is a 200, 400,
\* 429 or 500 response, and every stage runs at most once per request.
C18_TerminatesAsStated ==
    /\ [](/\ req.n_stage <= 1 /\ req.n_stt <= 1 /\ req.n_refine <= 1
          /\ req.n_chat <= 1 /\ req.n_release <= 1
          /\ req.pc = "done" => TerminalAsStated)
    /\ (req.pc \notin {"idle", "done"}) ~> TerminalAsStated

\* C18: with backend calls that return or raise and a finite upstream, every
\* request reaches a terminal outcome (200, 400, 413, 429 or 500, a streamed
\* body ended by completion, marker or disconnect); every stage and backend
\* call runs at most once per request, a request only moves forward through
\* the stages, and each turn of the streaming loop consumes one upstream chunk.
C18_Terminates ==
    /\ [](/\ req.n_stage <= 1 /\ req.n_stt <= 1 /\ req.n_refine <= 1
          /\ req.n_chat <= 1 /\ req.n_release <= 1
          /\ req.pulled <= MaxChunks
          /\ req.pc = "done" => Terminal)
    /\ [][(nreq' = nreq /\ req' # req) =>
            \/ Rank(req'.pc) > Rank(req.pc)
            \/ /\ req.pc = "gen_loop" /\ req'.pc = "gen_loop"
               /\ req'.pulled = req.pulled + 1]_vars
    /\ (req.pc \notin {"idle", "done"}) ~> Terminal

\* a streamed request whose body is too large ended with 413 before staging,
\* after an earlier request of the client
C18_Witness ==
    /\ Terminal
    /\ req.status = 413
    /\ req.mode = "streamed"
    /\ req.n_stage = 0
    /\ nreq > 1

====
